---- MODULE Spec2Model ----
(***************************************************************************)
(* The MusicXML transposition engine of OMR_API (src/transpose.py) with    *)
(* the score-summary parser it is fed by (src/cli.py parse_musicxml).      *)
(*                                                                         *)
(* A score document is the part of the element tree the engine reads and   *)
(* writes: its <key> elements (each with or without a <fifths> child) and  *)
(* its <pitch> elements (each the ordered list of its children).  Element  *)
(* text is a sequence of one-character strings, so that str() and int()    *)
(* are conversions and not the identity.  An Optional value is <<>> for    *)
(* None and <<v>> for v.                                                   *)
(*                                                                         *)
(* Around the engine: a script that calls it (main of src/transpose.py),   *)
(* callers that run it in parallel threads, the HTTP service of            *)
(* src/api/main.py with its session store, and the window application of   *)
(* src/main.py.                                                            *)
(***************************************************************************)
EXTENDS Integers, Sequences, FiniteSets, TLC

VARIABLES
    fs,          \* the files on disk: path -> document
    music_file,  \* the MusicXMLFile summary the script holds
    calls,       \* the transpose_musicxml calls made so far, with their outcomes
    threads,     \* per parallel call: its arguments, its position and its locals
    trees,       \* the element trees in memory: slot -> tree
    sessions,    \* the session store of the service: session id -> session data
    response,    \* the last HTTP response of the service
    history,     \* per session: the document uploaded, the last successful transpose
    app          \* the window application: its fields, buttons, worker threads, Tk events

script_vars == <<fs, music_file, calls>>

thread_vars == <<threads, trees>>

api_vars == <<sessions, response, history>>

gui_vars == <<app>>

vars == <<fs, music_file, calls, threads, trees, sessions, response, history, app>>

-----------------------------------------------------------------------------
(* Optional values and element text *)

None == <<>>

Some(v) == <<v>>

Digit == <<"0", "1", "2", "3", "4", "5", "6", "7", "8", "9">>

RECURSIVE NatStr(_)
NatStr(n) ==
    IF n < 10 THEN <<Digit[n + 1]>>
    ELSE NatStr(n \div 10) \o <<Digit[(n % 10) + 1]>>

\* Python str(n) of an int
IntStr(n) == IF n < 0 THEN <<"-">> \o NatStr(-n) ELSE NatStr(n)

DigitVal(c) == CHOOSE d \in 0..9 : Digit[d + 1] = c

RECURSIVE StrNat(_)
StrNat(s) ==
    IF Len(s) = 1 THEN DigitVal(s[1])
    ELSE 10 * StrNat(SubSeq(s, 1, Len(s) - 1)) + DigitVal(s[Len(s)])

\* Python int(text) of a decimal literal with an optional sign
StrInt(s) ==
    IF s[1] = "-" THEN 0 - StrNat(Tail(s))
    ELSE IF s[1] = "+" THEN StrNat(Tail(s))
    ELSE StrNat(s)

-----------------------------------------------------------------------------
(* Pitch algebra *)

NOTES == <<"C", "D", "E", "F", "G", "A", "B">>

KEY_SIGNATURES ==
    (-7 :> <<"C", "flat", 7>>) @@ (-6 :> <<"G", "flat", 6>>) @@
    (-5 :> <<"D", "flat", 5>>) @@ (-4 :> <<"A", "flat", 4>>) @@
    (-3 :> <<"E", "flat", 3>>) @@ (-2 :> <<"B", "flat", 2>>) @@
    (-1 :> <<"F", "none", 1>>) @@ (0 :> <<"C", "none", 0>>) @@
    (1 :> <<"G", "none", 1>>) @@ (2 :> <<"D", "none", 2>>) @@
    (3 :> <<"A", "none", 3>>) @@ (4 :> <<"E", "none", 4>>) @@
    (5 :> <<"B", "none", 5>>) @@ (6 :> <<"F", "sharp", 6>>) @@
    (7 :> <<"C", "sharp", 7>>)

base_notes == [C |-> 0, D |-> 2, E |-> 4, F |-> 5, G |-> 7, A |-> 9, B |-> 11]

\* fault: the sum is not reduced modulo 12
note_to_chromatic_no_wrap(step, alter) == base_notes[step] + alter

note_to_chromatic(step, alter) == (base_notes[step] + alter) % 12

naturals == (0 :> "C") @@ (2 :> "D") @@ (4 :> "E") @@ (5 :> "F") @@
            (7 :> "G") @@ (9 :> "A") @@ (11 :> "B")

sharp_map == (1 :> <<"C", 1>>) @@ (3 :> <<"D", 1>>) @@ (6 :> <<"F", 1>>) @@
             (8 :> <<"G", 1>>) @@ (10 :> <<"A", 1>>)

flat_map == (1 :> <<"D", -1>>) @@ (3 :> <<"E", -1>>) @@ (6 :> <<"G", -1>>) @@
            (8 :> <<"A", -1>>) @@ (10 :> <<"B", -1>>)

\* fault: black keys are always spelled with sharps
chromatic_to_note_sharps_only(chromatic_index, prefer_sharps) ==
    LET ci == chromatic_index % 12 IN
    IF ci \in DOMAIN naturals THEN <<naturals[ci], 0>>
    ELSE sharp_map[ci]

\* fault: the two black-key tables are taken the wrong way round
chromatic_to_note_swapped(chromatic_index, prefer_sharps) ==
    LET ci == chromatic_index % 12 IN
    IF ci \in DOMAIN naturals THEN <<naturals[ci], 0>>
    ELSE IF prefer_sharps THEN flat_map[ci]
    ELSE sharp_map[ci]

chromatic_to_note(chromatic_index, prefer_sharps) ==
    LET ci == chromatic_index % 12 IN
    IF ci \in DOMAIN naturals THEN <<naturals[ci], 0>>
    ELSE IF prefer_sharps THEN sharp_map[ci]
    ELSE flat_map[ci]

\* the alteration of a key's tonic, from its accidental kind
TonicAlter(key) ==
    IF KEY_SIGNATURES[key][2] = "sharp" THEN 1
    ELSE IF KEY_SIGNATURES[key][2] = "flat" THEN -1
    ELSE 0

\* fault: the difference is not reduced modulo 12
calculate_semitone_shift_signed(from_key, to_key) ==
    LET from_tonic == note_to_chromatic(KEY_SIGNATURES[from_key][1], TonicAlter(from_key))
        to_tonic == note_to_chromatic(KEY_SIGNATURES[to_key][1], TonicAlter(to_key))
    IN to_tonic - from_tonic

\* fault: the accidental of the target tonic is dropped
calculate_semitone_shift_bare_target(from_key, to_key) ==
    LET from_tonic == note_to_chromatic(KEY_SIGNATURES[from_key][1], TonicAlter(from_key))
        to_tonic == note_to_chromatic(KEY_SIGNATURES[to_key][1], 0)
    IN (to_tonic - from_tonic) % 12

calculate_semitone_shift(from_key, to_key) ==
    LET from_tonic == note_to_chromatic(KEY_SIGNATURES[from_key][1], TonicAlter(from_key))
        to_tonic == note_to_chromatic(KEY_SIGNATURES[to_key][1], TonicAlter(to_key))
    IN (to_tonic - from_tonic) % 12

-----------------------------------------------------------------------------
(* The element tree *)

Elem(tag, text) == [tag |-> tag, text |-> text]

\* Element.find(tag): the position of the first child with that tag, 0 for None
Find(children, tag) ==
    IF \E i \in DOMAIN children : children[i].tag = tag
    THEN CHOOSE i \in DOMAIN children :
            /\ children[i].tag = tag
            /\ \A j \in 1..(i - 1) : children[j].tag # tag
    ELSE 0

\* Element.remove(child): the child at position i is taken out
RemoveAt(children, i) ==
    SubSeq(children, 1, i - 1) \o SubSeq(children, i + 1, Len(children))

\* Element.insert(index, child), index counted from 0 as list.insert does
InsertAt(children, index, child) ==
    LET at == IF index > Len(children) THEN Len(children) ELSE index IN
    SubSeq(children, 1, at) \o <<child>> \o SubSeq(children, at + 1, Len(children))

-----------------------------------------------------------------------------
(* The document rewriter: transpose_musicxml *)

\* the text of a one-letter <step>, as the string base_notes is keyed by
Letter(text) == text[1]

\* lines 128-131: every <key> that has a <fifths> child gets the target key
RewriteKey(key_elem, target_key) ==
    IF key_elem.fifths # None
    THEN [key_elem EXCEPT !.fifths = Some(IntStr(target_key))]
    ELSE key_elem

\* fault: a note that becomes natural keeps its <alter>
WriteAlter_keep_stale(pitch_elem, ai, new_alter) ==
    IF new_alter = 0
    THEN pitch_elem
    ELSE IF ai = 0
         THEN InsertAt(pitch_elem, 1, Elem("alter", IntStr(new_alter)))
         ELSE [pitch_elem EXCEPT ![ai].text = IntStr(new_alter)]

\* fault: the created <alter> stays where SubElement appended it, after <octave>
WriteAlter_appended(pitch_elem, ai, new_alter) ==
    IF new_alter = 0
    THEN IF ai # 0 THEN RemoveAt(pitch_elem, ai) ELSE pitch_elem
    ELSE IF ai = 0
         THEN Append(pitch_elem, Elem("alter", IntStr(new_alter)))
         ELSE [pitch_elem EXCEPT ![ai].text = IntStr(new_alter)]

\* lines 161-172: the <alter> child is removed, created at index 1 or overwritten
WriteAlter(pitch_elem, ai, new_alter) ==
    IF new_alter = 0
    THEN IF ai # 0 THEN RemoveAt(pitch_elem, ai) ELSE pitch_elem
    ELSE IF ai = 0
         THEN InsertAt(pitch_elem, 1, Elem("alter", IntStr(new_alter)))
         ELSE [pitch_elem EXCEPT ![ai].text = IntStr(new_alter)]

\* fault: the octave is not carried over the B-C boundary
NewOctave_no_carry(current_octave, chromatic_value, semitone_shift) ==
    current_octave

\* lines 151-152: the octave after the shift
NewOctave(current_octave, chromatic_value, semitone_shift) ==
    current_octave + ((chromatic_value + semitone_shift) \div 12)

\* lines 136-174: one <pitch> element, given as the list of its children
TransposePitch(pitch_elem, semitone_shift, prefer_sharps) ==
    LET si == Find(pitch_elem, "step")
        ai == Find(pitch_elem, "alter")
        oi == Find(pitch_elem, "octave")
    IN
    IF si # 0 /\ oi # 0
    THEN LET current_step == Letter(pitch_elem[si].text)
             current_alter == IF ai # 0 /\ pitch_elem[ai].text # <<>>
                              THEN StrInt(pitch_elem[ai].text)
                              ELSE 0
             current_octave == StrInt(pitch_elem[oi].text)
             chromatic_value == note_to_chromatic(current_step, current_alter)
             new_chromatic == (chromatic_value + semitone_shift) % 12
             new_octave == NewOctave(current_octave, chromatic_value, semitone_shift)
             new_note == chromatic_to_note(new_chromatic, prefer_sharps)
             written == [pitch_elem EXCEPT ![si].text = <<new_note[1]>>,
                                           ![oi].text = IntStr(new_octave)]
         IN WriteAlter(written, ai, new_note[2])
    ELSE pitch_elem

\* fault: find() in place of findall(): only the first <key> is looked at
RewriteTree_first_key_only(tree, target_key, semitone_shift, prefer_sharps) ==
    [keys |-> [i \in DOMAIN tree.keys |->
                    IF i = 1 THEN RewriteKey(tree.keys[i], target_key) ELSE tree.keys[i]],
     pitches |-> [i \in DOMAIN tree.pitches |->
                    TransposePitch(tree.pitches[i], semitone_shift, prefer_sharps)]]

\* fault: the pitch loop is left at the first <pitch> lacking <step> or <octave>
RewriteTree_stop_at_malformed(tree, target_key, semitone_shift, prefer_sharps) ==
    [keys |-> [i \in DOMAIN tree.keys |-> RewriteKey(tree.keys[i], target_key)],
     pitches |-> [i \in DOMAIN tree.pitches |->
                    IF \E j \in 1..i : Find(tree.pitches[j], "step") = 0
                                        \/ Find(tree.pitches[j], "octave") = 0
                    THEN tree.pitches[i]
                    ELSE TransposePitch(tree.pitches[i], semitone_shift, prefer_sharps)]]

\* lines 127-174: the tree after both loops
RewriteTree(tree, target_key, semitone_shift, prefer_sharps) ==
    [keys |-> [i \in DOMAIN tree.keys |-> RewriteKey(tree.keys[i], target_key)],
     pitches |-> [i \in DOMAIN tree.pitches |->
                    TransposePitch(tree.pitches[i], semitone_shift, prefer_sharps)]]

\* fault: the file name carries the fifths value of the target key
DefaultOutputPath_of_fifths(file_path, target_key) ==
    file_path \o IntStr(target_key)

\* lines 177-181: <stem>_transposed_to_<tonic letter>.xml beside the input.
\* A path is the list of the name parts that "_transposed_to_" joins, ".xml" implied.
DefaultOutputPath(file_path, target_key) ==
    Append(file_path, KEY_SIGNATURES[target_key][1])

Raised(exc, msg, val) ==
    [status |-> "raised", exc |-> exc, msg |-> msg, val |-> val,
     semitone_shift |-> None, prefer_sharps |-> None, path |-> None, tree |-> None]

Returned(semitone_shift, prefer_sharps, path, tree) ==
    [status |-> "returned", exc |-> "", msg |-> "", val |-> None,
     semitone_shift |-> Some(semitone_shift), prefer_sharps |-> Some(prefer_sharps),
     path |-> Some(path), tree |-> Some(tree)]

\* lines 106-107
SourceKeyCheck(mf) ==
    IF mf.key_signature = None
    THEN Some(Raised("ValueError", "Source file must have a key signature to transpose", None))
    ELSE None

\* lines 109-110
TargetKeyCheck(target_key) ==
    IF target_key \notin DOMAIN KEY_SIGNATURES
    THEN Some(Raised("ValueError", "Target key must be between -7 and +7, got", Some(target_key)))
    ELSE None

\* line 113 with line 85: KEY_SIGNATURES[from_key] of a key the table lacks
ShiftLookup(mf) ==
    IF mf.key_signature[1] \notin DOMAIN KEY_SIGNATURES
    THEN Some(Raised("KeyError", "", mf.key_signature))
    ELSE None

\* fault: the target key is validated before the source key
transpose_musicxml_target_first(files, mf, target_key, output_path) ==
    IF TargetKeyCheck(target_key) # None THEN TargetKeyCheck(target_key)[1]
    ELSE IF SourceKeyCheck(mf) # None THEN SourceKeyCheck(mf)[1]
    ELSE IF ShiftLookup(mf) # None THEN ShiftLookup(mf)[1]
    ELSE LET semitone_shift == calculate_semitone_shift(mf.key_signature[1], target_key)
             prefer_sharps == target_key >= 0
             tree == RewriteTree(files[mf.file_path], target_key, semitone_shift, prefer_sharps)
             path == IF output_path = None
                     THEN DefaultOutputPath(mf.file_path, target_key)
                     ELSE output_path[1]
         IN Returned(semitone_shift, prefer_sharps, path, tree)

\* fault: sharps are preferred when the source key is not negative
transpose_musicxml_sharps_of_source(files, mf, target_key, output_path) ==
    IF SourceKeyCheck(mf) # None THEN SourceKeyCheck(mf)[1]
    ELSE IF TargetKeyCheck(target_key) # None THEN TargetKeyCheck(target_key)[1]
    ELSE IF ShiftLookup(mf) # None THEN ShiftLookup(mf)[1]
    ELSE LET semitone_shift == calculate_semitone_shift(mf.key_signature[1], target_key)
             prefer_sharps == mf.key_signature[1] >= 0
             tree == RewriteTree(files[mf.file_path], target_key, semitone_shift, prefer_sharps)
             path == IF output_path = None
                     THEN DefaultOutputPath(mf.file_path, target_key)
                     ELSE output_path[1]
         IN Returned(semitone_shift, prefer_sharps, path, tree)

\* lines 94-189: the outcome of one call on the file system files
transpose_musicxml(files, mf, target_key, output_path) ==
    IF SourceKeyCheck(mf) # None THEN SourceKeyCheck(mf)[1]
    ELSE IF TargetKeyCheck(target_key) # None THEN TargetKeyCheck(target_key)[1]
    ELSE IF ShiftLookup(mf) # None THEN ShiftLookup(mf)[1]
    ELSE LET semitone_shift == calculate_semitone_shift(mf.key_signature[1], target_key)
             prefer_sharps == target_key >= 0
             tree == RewriteTree(files[mf.file_path], target_key, semitone_shift, prefer_sharps)
             path == IF output_path = None
                     THEN DefaultOutputPath(mf.file_path, target_key)
                     ELSE output_path[1]
         IN Returned(semitone_shift, prefer_sharps, path, tree)

\* line 184: tree.write(output_path)
WriteFile(files, path, tree) == (path :> tree) @@ files

-----------------------------------------------------------------------------
(* The score summary: parse_musicxml of src/cli.py *)

\* line 197: root.find(".//key/fifths"), the first <fifths> in document order
FirstFifths(tree) ==
    IF \E i \in DOMAIN tree.keys : tree.keys[i].fifths # None
    THEN LET i == CHOOSE i \in DOMAIN tree.keys :
                    /\ tree.keys[i].fifths # None
                    /\ \A j \in 1..(i - 1) : tree.keys[j].fifths = None
         IN tree.keys[i].fifths
    ELSE None

parse_musicxml(files, file_path) ==
    LET key_elem == FirstFifths(files[file_path]) IN
    [file_path |-> file_path,
     key_signature |-> IF key_elem # None THEN Some(StrInt(key_elem[1])) ELSE None]

-----------------------------------------------------------------------------
(* Bounds and inputs *)

\* the caller makes at most this many transpose_musicxml calls
MaxCalls == 2

Keys == DOMAIN KEY_SIGNATURES

\* fifths values a document may carry that the table lacks
OutOfRangeKeys == {8, -9}

\* target keys a caller may ask for: every key of the table and one outside it
TargetKeys == Keys \cup {9}

\* the uploaded score, "score.xml"
InputPath == <<"score">>

StepElem(letter) == Elem("step", <<letter>>)

AlterElem(text) == Elem("alter", text)

OctaveElem(n) == Elem("octave", IntStr(n))

KeyElem(fifths) == [fifths |-> fifths]

Letters == {NOTES[i] : i \in DOMAIN NOTES}

\* alteration v as a well-formed document writes it: no <alter> for a natural
AlterChild(v) == IF v = 0 THEN <<>> ELSE <<AlterElem(IntStr(v))>>

NoteOctaves == {4}

\* well-formed pitches in schema order: step, alter (optional), octave
NotePitches ==
    {<<StepElem(l)>> \o AlterChild(a) \o <<OctaveElem(o)>> :
        l \in Letters, a \in {-1, 0, 1}, o \in NoteOctaves}

\* single-part, single-note scores in every key, in keys the table lacks, and unkeyed
NoteDocs ==
    {[keys |-> <<KeyElem(f)>>, pitches |-> <<p>>] :
        f \in {None} \cup {Some(IntStr(k)) : k \in Keys \cup OutOfRangeKeys},
        p \in NotePitches}

\* scores with several key markers and pitch markers, some of them malformed
MaxKeyMarkers == 2

MaxPitches == 2

SeqsUpTo(S, n) == UNION {[1..m -> S] : m \in 0..n}

\* <key> elements: without <fifths> (a non-traditional key), C major, A flat major
DocKeys == {KeyElem(None), KeyElem(Some(IntStr(0))), KeyElem(Some(IntStr(-4)))}

\* B flat 4; F 9 with <alter>0</alter>; a pitch without <step>; a pitch without <octave>
DocPitches ==
    {<<StepElem("B"), AlterElem(IntStr(-1)), OctaveElem(4)>>,
     <<StepElem("F"), AlterElem(IntStr(0)), OctaveElem(9)>>,
     <<AlterElem(IntStr(1)), OctaveElem(4)>>,
     <<StepElem("E"), AlterElem(<<>>)>>}

MarkerDocs ==
    {[keys |-> k, pitches |-> p] :
        k \in SeqsUpTo(DocKeys, MaxKeyMarkers), p \in SeqsUpTo(DocPitches, MaxPitches)}

\* the target keys asked for on those scores
DocTargetKeys == {-7, 0, 3, 9}

-----------------------------------------------------------------------------
(* The script: main() of src/transpose.py parses a score, transposes it and *)
(* parses what it wrote; the next run of the script takes that file up.     *)
(* An exception leaves the script, so no run follows a raised call.         *)

\* what is kept of a call: its arguments and what it raised or returned
CallRecord(mf, target_key, result) ==
    [music_file |-> mf, target_key |-> target_key,
     result |-> [f \in DOMAIN result \ {"tree"} |-> result[f]]]

LastReturned ==
    IF calls = <<>> THEN TRUE ELSE calls[Len(calls)].result.status = "returned"

\* no thread has been started, no request has been served
NoThreads == threads = <<>> /\ trees = <<>>

NoService == sessions = <<>> /\ response = <<>> /\ history = <<>>

\* no window is open
NoGui == app = <<>>

main(target_key) ==
    /\ Len(calls) < MaxCalls
    /\ LastReturned
    /\ UNCHANGED <<thread_vars, api_vars, gui_vars>>
    /\ \E result \in {transpose_musicxml(fs, music_file, target_key, None)} :
        /\ calls' = Append(calls, CallRecord(music_file, target_key, result))
        /\ IF result.status = "returned"
           THEN /\ fs' = WriteFile(fs, result.path[1], result.tree[1])
                /\ music_file' = parse_musicxml(fs', result.path[1])
           ELSE UNCHANGED <<fs, music_file>>

Init ==
    /\ \E doc \in NoteDocs : fs = (InputPath :> doc)
    /\ music_file = parse_musicxml(fs, InputPath)
    /\ calls = <<>>
    /\ NoThreads
    /\ NoService
    /\ NoGui

Next == \E target_key \in TargetKeys : main(target_key)

Spec == Init /\ [][Next]_vars

InitDoc ==
    /\ \E doc \in MarkerDocs : fs = (InputPath :> doc)
    /\ music_file = parse_musicxml(fs, InputPath)
    /\ calls = <<>>
    /\ NoThreads
    /\ NoService
    /\ NoGui

NextDoc == \E target_key \in DocTargetKeys : main(target_key)

SpecDoc == InitDoc /\ [][NextDoc]_vars

-----------------------------------------------------------------------------
(* One run of the script on single-note scores in every valid key, the note *)
(* in a low, a middle and a high octave                                     *)

HeightOctaves == {0, 4, 9}

HeightPitches ==
    {<<StepElem(l)>> \o AlterChild(a) \o <<OctaveElem(o)>> :
        l \in Letters, a \in {-1, 0, 1}, o \in HeightOctaves}

HeightDocs ==
    {[keys |-> <<KeyElem(Some(IntStr(k)))>>, pitches |-> <<p>>] :
        k \in Keys, p \in HeightPitches}

InitOnce ==
    /\ \E doc \in HeightDocs : fs = (InputPath :> doc)
    /\ music_file = parse_musicxml(fs, InputPath)
    /\ calls = <<>>
    /\ NoThreads
    /\ NoService
    /\ NoGui

NextOnce == \E target_key \in TargetKeys : calls = <<>> /\ main(target_key)

SpecOnce == InitOnce /\ [][NextOnce]_vars

-----------------------------------------------------------------------------
(* A caller that keeps one score summary and calls transpose_musicxml on it  *)
(* again and again, with or without an output path of its own choice; it    *)
(* goes on after a call that raised.                                         *)

\* "out.xml", a path of the caller's choice
OtherPath == <<"out">>

\* the output_path argument: left out, the input file itself, another file
OutputPaths == {None, Some(InputPath), Some(OtherPath)}

\* B flat 4 in C major and in A flat major
CallDocs ==
    {[keys |-> <<KeyElem(Some(IntStr(k)))>>,
      pitches |-> <<<<StepElem("B"), AlterElem(IntStr(-1)), OctaveElem(4)>>>>] :
        k \in {0, -4}}

call(target_key, output_path) ==
    /\ Len(calls) < MaxCalls
    /\ \E result \in {transpose_musicxml(fs, music_file, target_key, output_path)} :
        /\ calls' = Append(calls, CallRecord(music_file, target_key, result)
                                    @@ [output_path |-> output_path])
        /\ IF result.status = "returned"
           THEN fs' = WriteFile(fs, result.path[1], result.tree[1])
           ELSE UNCHANGED fs
    /\ UNCHANGED <<music_file, thread_vars, api_vars, gui_vars>>

InitCalls ==
    /\ \E doc \in CallDocs : fs = (InputPath :> doc)
    /\ music_file = parse_musicxml(fs, InputPath)
    /\ calls = <<>>
    /\ NoThreads
    /\ NoService
    /\ NoGui

NextCalls == \E target_key \in TargetKeys, output_path \in OutputPaths : call(target_key, output_path)

SpecCalls == InitCalls /\ [][NextCalls]_vars

-----------------------------------------------------------------------------
(* Parallel calls.  Each thread runs one transpose_musicxml call on a score  *)
(* file of its own, step by step: the checks, the parse, the key loop, one   *)
(* pitch of the pitch loop at a time, the write.  The steps of different     *)
(* threads interleave freely.                                                *)

MaxThreads == 2

Threads == 1..MaxThreads

\* "score1.xml", "score2.xml", ...: the score file of thread t
ThreadPath(t) == <<"score">> \o IntStr(t)

\* a two-part score in C major holding B4 and B flat 4; a score without a key
ThreadDocs ==
    {[keys |-> <<KeyElem(Some(IntStr(0))), KeyElem(Some(IntStr(0)))>>,
      pitches |-> <<<<StepElem("B"), OctaveElem(4)>>,
                    <<StepElem("B"), AlterElem(IntStr(-1)), OctaveElem(4)>>>>],
     [keys |-> <<KeyElem(None)>>,
      pitches |-> <<<<StepElem("B"), OctaveElem(4)>>>>]}

ThreadTargets == {-7, 2, 9}

\* a call about to start; doc remembers the score the thread was given
ThreadStart(mf, doc, target_key) ==
    [music_file |-> mf, doc |-> doc, target_key |-> target_key, pc |-> "check",
     semitone_shift |-> None, prefer_sharps |-> None, pitch_index |-> 0,
     result |-> None]

\* fault: the tree is kept in one module-level variable that all calls use
TreeSlot_shared(t) == 1

\* line 120: tree is a local variable, one per call
TreeSlot(t) == t

\* lines 106-117: the checks, the shift and the spelling flag
check(t) ==
    /\ threads[t].pc = "check"
    /\ LET th == threads[t] IN
       IF SourceKeyCheck(th.music_file) # None
       THEN threads' = [threads EXCEPT ![t].pc = "raised",
                                       ![t].result = SourceKeyCheck(th.music_file)]
       ELSE IF TargetKeyCheck(th.target_key) # None
       THEN threads' = [threads EXCEPT ![t].pc = "raised",
                                       ![t].result = TargetKeyCheck(th.target_key)]
       ELSE IF ShiftLookup(th.music_file) # None
       THEN threads' = [threads EXCEPT ![t].pc = "raised",
                                       ![t].result = ShiftLookup(th.music_file)]
       ELSE threads' = [threads EXCEPT
                ![t].pc = "parse",
                ![t].semitone_shift =
                    Some(calculate_semitone_shift(th.music_file.key_signature[1], th.target_key)),
                ![t].prefer_sharps = Some(th.target_key >= 0)]
    /\ UNCHANGED <<trees, script_vars, api_vars, gui_vars>>

\* lines 120-121: ET.parse(music_file.file_path)
parse(t) ==
    /\ threads[t].pc = "parse"
    /\ trees' = (TreeSlot(t) :> fs[threads[t].music_file.file_path]) @@ trees
    /\ threads' = [threads EXCEPT ![t].pc = "keys"]
    /\ UNCHANGED <<script_vars, api_vars, gui_vars>>

\* lines 128-131: the key loop
rewrite_keys(t) ==
    /\ threads[t].pc = "keys"
    /\ trees' = [trees EXCEPT ![TreeSlot(t)].keys =
                    [i \in DOMAIN @ |-> RewriteKey(@[i], threads[t].target_key)]]
    /\ threads' = [threads EXCEPT ![t].pc = "pitches", ![t].pitch_index = 1]
    /\ UNCHANGED <<script_vars, api_vars, gui_vars>>

\* lines 135-174: one turn of the pitch loop
rewrite_pitch(t) ==
    /\ threads[t].pc = "pitches"
    /\ threads[t].pitch_index <= Len(trees[TreeSlot(t)].pitches)
    /\ trees' = [trees EXCEPT ![TreeSlot(t)].pitches[threads[t].pitch_index] =
                    TransposePitch(@, threads[t].semitone_shift[1], threads[t].prefer_sharps[1])]
    /\ threads' = [threads EXCEPT ![t].pitch_index = @ + 1]
    /\ UNCHANGED <<script_vars, api_vars, gui_vars>>

\* lines 177-189: the output path, tree.write and the return
write(t) ==
    /\ threads[t].pc = "pitches"
    /\ threads[t].pitch_index > Len(trees[TreeSlot(t)].pitches)
    /\ LET th == threads[t]
           path == DefaultOutputPath(th.music_file.file_path, th.target_key)
       IN /\ fs' = WriteFile(fs, path, trees[TreeSlot(t)])
          /\ threads' = [threads EXCEPT
                ![t].pc = "done",
                ![t].result = Some(Returned(th.semitone_shift[1], th.prefer_sharps[1],
                                            path, trees[TreeSlot(t)]))]
    /\ UNCHANGED <<trees, music_file, calls, api_vars, gui_vars>>

InitThreads ==
    /\ \E docs \in [Threads -> ThreadDocs], targets \in [Threads -> ThreadTargets] :
          /\ fs = [p \in {ThreadPath(t) : t \in Threads} |->
                        docs[CHOOSE t \in Threads : ThreadPath(t) = p]]
          /\ threads = [t \in Threads |->
                ThreadStart(parse_musicxml(fs, ThreadPath(t)), docs[t], targets[t])]
    /\ trees = <<>>
    /\ music_file = None
    /\ calls = <<>>
    /\ NoService
    /\ NoGui

NextThreads ==
    \E t \in Threads :
        \/ check(t)
        \/ parse(t)
        \/ rewrite_keys(t)
        \/ rewrite_pitch(t)
        \/ write(t)

SpecThreads == InitThreads /\ [][NextThreads]_vars

-----------------------------------------------------------------------------
(* The HTTP service of src/api/main.py.  Its handlers are coroutines on one  *)
(* event loop; /api/transpose and /api/convert-to-pdf never await, and       *)
(* /api/upload-pdf awaits only before it touches the session store, so each  *)
(* handler is one step.  The PDF that the renderer writes is a file of the   *)
(* renderer; the response says which document was rendered.                  *)

MaxSessions == 2

\* the session ids requests may carry: those uploads give out, and one more
RequestIds == 1..(MaxSessions + 1)

\* line 95: uuid4() gives an id no session has
NewSessionId(store) ==
    CHOOSE id \in 1..MaxSessions :
        /\ id \notin DOMAIN store
        /\ \A other \in 1..(id - 1) : other \in DOMAIN store

\* lines 100-127: <session dir>/input_unzipped/<name>.xml
SessionPath(session_id) == <<"session">> \o IntStr(session_id) \o <<"score">>

\* what the recogniser makes of the uploaded PDF: a score in C major holding
\* B4 and B flat 4, a score without a key, a score with fifths 8
UploadDocs ==
    {[keys |-> <<KeyElem(f)>>,
      pitches |-> <<<<StepElem("B"), OctaveElem(4)>>,
                    <<StepElem("B"), AlterElem(IntStr(-1)), OctaveElem(4)>>>>] :
        f \in {Some(IntStr(0)), None, Some(IntStr(8))}}

ApiTargets == {-7, 2, 7, 9}

Response(endpoint, session_id, target_key, status, converted) ==
    Some([endpoint |-> endpoint, session_id |-> session_id, target_key |-> target_key,
          status |-> status, converted |-> converted])

\* what a handler leaves behind: status code, session store, files, and what
\* it transposed or rendered
Reply(status, store, files, done) ==
    [status |-> status, sessions |-> store, fs |-> files, done |-> done]

\* lines 90-173
upload_request(store, files, is_pdf, recognised) ==
    IF ~is_pdf THEN Reply(400, store, files, None)
    ELSE IF recognised = None THEN Reply(500, store, files, None)
    ELSE LET session_id == NewSessionId(store)
             xml_path == SessionPath(session_id)
             written == WriteFile(files, xml_path, recognised[1])
             music_data == parse_musicxml(written, xml_path)
             stored == (session_id :>
                          [xml_path |-> xml_path,
                           original_key |-> music_data.key_signature,
                           transposed_path |-> None]) @@ store
         IN IF music_data.key_signature # None
               /\ music_data.key_signature[1] \notin DOMAIN KEY_SIGNATURES
            THEN Reply(500, store, files, None)
            ELSE Reply(200, stored, written, Some(session_id))

\* fault: the transposed file becomes the session's score
StoreTransposed_as_source(session_data, transposed_path, target_key) ==
    [session_data EXCEPT !.transposed_path = Some(transposed_path),
                         !.xml_path = transposed_path,
                         !.original_key = Some(target_key)]

\* line 215
StoreTransposed(session_data, transposed_path, target_key) ==
    [session_data EXCEPT !.transposed_path = Some(transposed_path)]

\* fault: the expected output path is stored before the engine is called
transpose_request_stored_first(store, files, session_id, target_key) ==
    IF session_id \notin DOMAIN store THEN Reply(404, store, files, None)
    ELSE IF target_key \notin DOMAIN KEY_SIGNATURES THEN Reply(400, store, files, None)
    ELSE LET session_data == store[session_id]
             music_data == [file_path |-> session_data.xml_path,
                            key_signature |-> session_data.original_key]
             result == transpose_musicxml(files, music_data, target_key, None)
             stored == [store EXCEPT ![session_id] =
                          StoreTransposed(@, DefaultOutputPath(session_data.xml_path, target_key),
                                          target_key)]
         IN IF result.status = "raised"
            THEN Reply(500, stored, files, None)
            ELSE Reply(200, stored,
                       WriteFile(files, result.path[1], result.tree[1]),
                       Some([target_key |-> target_key, path |-> result.path[1],
                             tree |-> result.tree[1]]))

\* lines 188-239
transpose_request(store, files, session_id, target_key) ==
    IF session_id \notin DOMAIN store THEN Reply(404, store, files, None)
    ELSE IF target_key \notin DOMAIN KEY_SIGNATURES THEN Reply(400, store, files, None)
    ELSE LET session_data == store[session_id]
             music_data == [file_path |-> session_data.xml_path,
                            key_signature |-> session_data.original_key]
             result == transpose_musicxml(files, music_data, target_key, None)
         IN IF result.status = "raised"
            THEN Reply(500, store, files, None)
            ELSE Reply(200,
                       [store EXCEPT ![session_id] =
                            StoreTransposed(@, result.path[1], target_key)],
                       WriteFile(files, result.path[1], result.tree[1]),
                       Some([target_key |-> target_key, path |-> result.path[1],
                             tree |-> result.tree[1]]))

\* fault: a session without a transposed file has its uploaded score rendered
ConvertSource_or_upload(session_data) ==
    IF session_data.transposed_path = None
    THEN Some(session_data.xml_path)
    ELSE session_data.transposed_path

\* lines 260-267: the file to render, None when "transposed_path" is not a key
ConvertSource(session_data) == session_data.transposed_path

\* lines 254-280; rendered says whether the renderer made a PDF
convert_request(store, files, session_id, rendered) ==
    IF session_id \notin DOMAIN store THEN Reply(404, store, files, None)
    ELSE IF ConvertSource(store[session_id]) = None THEN Reply(400, store, files, None)
    ELSE LET transposed_xml == ConvertSource(store[session_id])[1] IN
         IF transposed_xml \notin DOMAIN files \/ ~rendered
         THEN Reply(500, store, files, None)
         ELSE Reply(200, store, files,
                    Some([path |-> transposed_xml, document |-> files[transposed_xml]]))

upload_pdf(is_pdf, recognised) ==
    /\ is_pdf => Cardinality(DOMAIN sessions) < MaxSessions
    /\ \E reply \in {upload_request(sessions, fs, is_pdf, recognised)} :
        /\ sessions' = reply.sessions
        /\ fs' = reply.fs
        /\ response' = Response("upload-pdf", reply.done, None, reply.status, None)
        /\ history' = IF reply.status = 200
                      THEN (reply.done[1] :>
                              [xml_path |-> reply.sessions[reply.done[1]].xml_path,
                               original_key |-> reply.sessions[reply.done[1]].original_key,
                               uploaded |-> recognised[1],
                               transposed |-> None]) @@ history
                      ELSE history
    /\ UNCHANGED <<music_file, calls, thread_vars, gui_vars>>

transpose(session_id, target_key) ==
    /\ \E reply \in {transpose_request(sessions, fs, session_id, target_key)} :
        /\ sessions' = reply.sessions
        /\ fs' = reply.fs
        /\ response' = Response("transpose", Some(session_id), Some(target_key),
                                reply.status, None)
        /\ history' = IF reply.status = 200
                      THEN [history EXCEPT ![session_id].transposed = reply.done]
                      ELSE history
    /\ UNCHANGED <<music_file, calls, thread_vars, gui_vars>>

convert_to_pdf(session_id, rendered) ==
    /\ \E reply \in {convert_request(sessions, fs, session_id, rendered)} :
        /\ sessions' = reply.sessions
        /\ fs' = reply.fs
        /\ response' = Response("convert-to-pdf", Some(session_id), None,
                                reply.status, reply.done)
    /\ UNCHANGED <<history, music_file, calls, thread_vars, gui_vars>>

InitApi ==
    /\ fs = <<>>
    /\ music_file = None
    /\ calls = <<>>
    /\ NoThreads
    /\ NoService
    /\ NoGui

NextApi ==
    \/ \E is_pdf \in BOOLEAN, recognised \in {None} \cup {Some(doc) : doc \in UploadDocs} :
          upload_pdf(is_pdf, recognised)
    \/ \E session_id \in RequestIds, target_key \in ApiTargets :
          transpose(session_id, target_key)
    \/ \E session_id \in RequestIds, rendered \in BOOLEAN :
          convert_to_pdf(session_id, rendered)

SpecApi == InitApi /\ [][NextApi]_vars

-----------------------------------------------------------------------------
(* The window application of src/main.py.  Button handlers and root.after    *)
(* callbacks run one at a time on the Tk main loop; process_pdf, do_transpose *)
(* and do_convert run in worker threads that read the fields of the          *)
(* application when they get to them, and hand their outcome to the main     *)
(* loop with root.after.  A disabled button does not call its handler.       *)

\* worker threads running plus callbacks waiting, at most
MaxTasks == 2

\* the PDF files the user may choose
Pdfs == {"first", "second"}

\* what the recogniser makes of each PDF: B4 in C major, B flat 4 in A flat major
RecognisedDoc(pdf) ==
    IF pdf = "first"
    THEN [keys |-> <<KeyElem(Some(IntStr(0)))>>,
          pitches |-> <<<<StepElem("B"), OctaveElem(4)>>>>]
    ELSE [keys |-> <<KeyElem(Some(IntStr(-4)))>>,
          pitches |-> <<<<StepElem("B"), AlterElem(IntStr(-1)), OctaveElem(4)>>>>]

\* lines 268-283: <pdf stem>_unzipped/<name>.xml
GuiXmlPath(pdf) == <<pdf>>

\* the entries of the key dropdown the user may have selected; None is
\* "Select a key..."
Selections == {None, Some(0), Some(2)}

\* lines 26-31, 189, 204: the application after __init__
NewApp ==
    [pdf_path |-> None, xml_path |-> None, music_data |-> None,
     transposed_xml_path |-> None,
     upload_btn |-> "normal", transpose_btn |-> "disabled", pdf_btn |-> "disabled",
     workers |-> <<>>, after |-> <<>>]

Worker(target, pc, target_fifths) ==
    [target |-> target, pc |-> pc, target_fifths |-> target_fifths]

Callback(name, arg) == [callback |-> name, arg |-> arg]

Tasks(a) == Len(a.workers) + Len(a.after)

\* a worker thread ends
Without(workers, w) == RemoveAt(workers, w)

\* lines 241-258
gui_upload_pdf(file_path) ==
    /\ app # <<>>
    /\ app.upload_btn = "normal"
    /\ Tasks(app) < MaxTasks
    /\ IF file_path = None
       THEN UNCHANGED app
       ELSE app' = [app EXCEPT !.pdf_path = file_path,
                               !.upload_btn = "disabled",
                               !.workers = Append(@, Worker("process_pdf", "extract", None))]
    /\ UNCHANGED <<script_vars, thread_vars, api_vars>>

\* lines 262-283: the recogniser and the archive, up to self.xml_path.
\* outcome: the recogniser wrote the document, an exception, or sys.exit
process_pdf_extract(w, outcome) ==
    /\ app # <<>>
    /\ w \in DOMAIN app.workers
    /\ app.workers[w].target = "process_pdf"
    /\ app.workers[w].pc = "extract"
    /\ IF outcome = "written"
       THEN /\ fs' = WriteFile(fs, GuiXmlPath(app.pdf_path[1]), RecognisedDoc(app.pdf_path[1]))
            /\ app' = [app EXCEPT !.xml_path = Some(GuiXmlPath(app.pdf_path[1])),
                                   !.workers[w].pc = "parse"]
       ELSE IF outcome = "raised"
       THEN /\ app' = [app EXCEPT !.workers = Without(@, w),
                                   !.after = Append(@, Callback("show_error", None))]
            /\ UNCHANGED fs
       ELSE /\ app' = [app EXCEPT !.workers = Without(@, w)]
            /\ UNCHANGED fs
    /\ UNCHANGED <<music_file, calls, thread_vars, api_vars>>

\* lines 285-290
process_pdf_parse(w) ==
    /\ app # <<>>
    /\ w \in DOMAIN app.workers
    /\ app.workers[w].target = "process_pdf"
    /\ app.workers[w].pc = "parse"
    /\ app' = [app EXCEPT !.music_data = Some(parse_musicxml(fs, app.xml_path[1])),
                          !.workers = Without(@, w),
                          !.after = Append(@, Callback("display_music_info", None))]
    /\ UNCHANGED <<script_vars, thread_vars, api_vars>>

\* lines 335-373
transpose_music(selected) ==
    /\ app # <<>>
    /\ app.transpose_btn = "normal"
    /\ Tasks(app) < MaxTasks
    /\ IF app.music_data = None
       THEN UNCHANGED app
       ELSE IF selected = None
       THEN UNCHANGED app
       ELSE IF selected = app.music_data[1].key_signature
       THEN UNCHANGED app
       ELSE app' = [app EXCEPT !.transpose_btn = "disabled",
                               !.workers = Append(@, Worker("do_transpose", "run", selected))]
    /\ UNCHANGED <<script_vars, thread_vars, api_vars>>

\* lines 364-369
do_transpose(w) ==
    /\ app # <<>>
    /\ w \in DOMAIN app.workers
    /\ app.workers[w].target = "do_transpose"
    /\ \E result \in {transpose_musicxml(fs, app.music_data[1],
                                          app.workers[w].target_fifths[1], None)} :
          IF result.status = "returned"
          THEN /\ fs' = WriteFile(fs, result.path[1], result.tree[1])
               /\ app' = [app EXCEPT
                     !.workers = Without(@, w),
                     !.after = Append(@, Callback("show_transpose_success", result.path))]
          ELSE /\ UNCHANGED fs
               /\ app' = [app EXCEPT
                     !.workers = Without(@, w),
                     !.after = Append(@, Callback("show_error", None))]
    /\ UNCHANGED <<music_file, calls, thread_vars, api_vars>>

\* lines 391-411
gui_convert_to_pdf ==
    /\ app # <<>>
    /\ app.pdf_btn = "normal"
    /\ Tasks(app) < MaxTasks
    /\ IF app.transposed_xml_path = None
       THEN UNCHANGED app
       ELSE app' = [app EXCEPT !.pdf_btn = "disabled",
                               !.workers = Append(@, Worker("do_convert", "run", None))]
    /\ UNCHANGED <<script_vars, thread_vars, api_vars>>

\* lines 402-407; rendered says whether the renderer made a PDF
do_convert(w, rendered) ==
    /\ app # <<>>
    /\ w \in DOMAIN app.workers
    /\ app.workers[w].target = "do_convert"
    /\ app' = [app EXCEPT
          !.workers = Without(@, w),
          !.after = Append(@, IF rendered /\ app.transposed_xml_path[1] \in DOMAIN fs
                              THEN Callback("show_pdf_success", app.transposed_xml_path)
                              ELSE Callback("show_error", None))]
    /\ UNCHANGED <<script_vars, thread_vars, api_vars>>

\* lines 299-333; a key the table lacks raises KeyError at line 302 and the
\* callback ends there
display_music_info(a) ==
    IF a.music_data[1].key_signature # None
       /\ a.music_data[1].key_signature[1] \notin DOMAIN KEY_SIGNATURES
    THEN a
    ELSE [a EXCEPT !.transpose_btn = "normal", !.upload_btn = "normal"]

\* lines 375-389
show_transpose_success(a, output_path) ==
    [a EXCEPT !.transpose_btn = "normal",
              !.pdf_btn = "normal",
              !.transposed_xml_path = output_path]

\* lines 413-420
show_pdf_success(a) == [a EXCEPT !.pdf_btn = "normal"]

\* lines 433-439
show_error(a) == [a EXCEPT !.upload_btn = "normal", !.transpose_btn = "disabled"]

\* the Tk main loop runs the callback that has waited longest
tk_after ==
    /\ app # <<>>
    /\ app.after # <<>>
    /\ LET event == Head(app.after)
           rest == [app EXCEPT !.after = Tail(@)]
       IN app' = IF event.callback = "display_music_info" THEN display_music_info(rest)
                 ELSE IF event.callback = "show_transpose_success"
                      THEN show_transpose_success(rest, event.arg)
                 ELSE IF event.callback = "show_pdf_success" THEN show_pdf_success(rest)
                 ELSE show_error(rest)
    /\ UNCHANGED <<script_vars, thread_vars, api_vars>>

InitGui ==
    /\ fs = <<>>
    /\ music_file = None
    /\ calls = <<>>
    /\ NoThreads
    /\ NoService
    /\ app = NewApp

NextGui ==
    \/ \E file_path \in {None} \cup {Some(pdf) : pdf \in Pdfs} : gui_upload_pdf(file_path)
    \/ \E w \in 1..MaxTasks, outcome \in {"written", "raised", "exited"} :
          process_pdf_extract(w, outcome)
    \/ \E w \in 1..MaxTasks : process_pdf_parse(w)
    \/ \E selected \in Selections : transpose_music(selected)
    \/ \E w \in 1..MaxTasks : do_transpose(w)
    \/ gui_convert_to_pdf
    \/ \E w \in 1..MaxTasks, rendered \in BOOLEAN : do_convert(w, rendered)
    \/ tk_after

SpecGui == InitGui /\ [][NextGui]_vars

-----------------------------------------------------------------------------
(* What the properties read off a call and off a pitch *)

Ok(c) == c.result.status = "returned"

ShiftOf(c) == c.result.semitone_shift[1]

PreferSharpsOf(c) == c.result.prefer_sharps[1]

\* the document a call read and the document it wrote
InDoc(c) == fs[c.music_file.file_path]

OutDoc(c) == fs[c.result.path[1]]

WellFormed(p) == Find(p, "step") # 0 /\ Find(p, "octave") # 0

HasAlter(p) == Find(p, "alter") # 0

AlterMarkers(p) == {k \in DOMAIN p : p[k].tag = "alter"}

AlterOf(p) ==
    IF HasAlter(p) /\ p[Find(p, "alter")].text # <<>>
    THEN StrInt(p[Find(p, "alter")].text)
    ELSE 0

\* a pitch marker as the data model sees it: letter, alteration, octave and the
\* chromatic pitch class (baseOffset[letter] + alteration) mod 12
Note(p) ==
    [elem |-> p,
     step |-> p[Find(p, "step")].text[1],
     alter |-> AlterOf(p),
     octave |-> StrInt(p[Find(p, "octave")].text),
     class |-> (base_notes[p[Find(p, "step")].text[1]] + AlterOf(p)) % 12]

\* every well-formed pitch call c read (old) with the pitch call d wrote in its
\* place (new); d is c itself, or the call that took up what c wrote
Rewritten(c, d) ==
    {[old |-> Note(InDoc(c).pitches[j]), new |-> Note(OutDoc(d).pitches[j])] :
        j \in {k \in DOMAIN InDoc(c).pitches : WellFormed(InDoc(c).pitches[k])}}

BFlat4 == <<StepElem("B"), AlterElem(IntStr(-1)), OctaveElem(4)>>

B4 == <<StepElem("B"), OctaveElem(4)>>

\* The call just made.  Every call is the last call of the state it leads to,
\* and an invariant is checked in every reachable state: what holds of the
\* last call of every state holds of every call.
Made == IF calls = <<>> THEN {} ELSE {Len(calls)}

\* the call before the call just made
MadeBefore == IF Len(calls) < 2 THEN {} ELSE {Len(calls) - 1}

\* calls i and i+1 are a round trip: i+1 takes up the file i wrote, in the key i
\* wrote it in, and transposes it to the key i started from
RoundTrip(i) ==
    /\ i + 1 \in DOMAIN calls
    /\ Ok(calls[i])
    /\ Ok(calls[i + 1])
    /\ calls[i + 1].music_file.file_path = calls[i].result.path[1]
    /\ calls[i + 1].music_file.key_signature = Some(calls[i].target_key)
    /\ Some(calls[i + 1].target_key) = calls[i].music_file.key_signature

-----------------------------------------------------------------------------
(* Round trip and zero shift *)

\* C1 as stated: a round trip from key A to key B and back gives every pitch
\* its original chromatic pitch class and its original octave.
C1_RoundTripRestoresOctave ==
    \A i \in MadeBefore :
        RoundTrip(i) =>
            \A r \in Rewritten(calls[i], calls[i + 1]) :
                /\ r.new.class = r.old.class
                /\ r.new.octave = r.old.octave

\* C1 amended: a round trip from key A to key B and back gives every pitch its
\* original chromatic pitch class; its octave is the original one when the
\* semitone shift from A to B is 0, and the original one plus 1 otherwise.
C1_RoundTripClassAndOctave ==
    \A i \in MadeBefore :
        RoundTrip(i) =>
            \A r \in Rewritten(calls[i], calls[i + 1]) :
                /\ r.new.class = r.old.class
                /\ r.new.octave = r.old.octave + (IF ShiftOf(calls[i]) = 0 THEN 0 ELSE 1)

\* a round trip between keys a non-zero shift apart has been made on a pitch
C1_Witness ==
    \E i \in DOMAIN calls :
        /\ RoundTrip(i)
        /\ ShiftOf(calls[i]) # 0
        /\ Rewritten(calls[i], calls[i + 1]) # {}

\* the spellings chromatic_to_note gives back: naturals, the five sharps when
\* sharps are preferred, the five flats otherwise
PolicySpelling(letter, alteration, sharps) ==
    \/ alteration = 0
    \/ alteration = 1 /\ sharps /\ letter \in {"C", "D", "F", "G", "A"}
    \/ alteration = -1 /\ ~sharps /\ letter \in {"D", "E", "G", "A", "B"}

\* C2 as stated: a call whose semitone shift is 0 leaves the letter, the
\* alteration and the octave of every pitch as they were.
C2_ZeroShiftKeepsSpelling ==
    \A i \in Made :
        (Ok(calls[i]) /\ ShiftOf(calls[i]) = 0) =>
            \A r \in Rewritten(calls[i], calls[i]) :
                /\ r.new.step = r.old.step
                /\ r.new.alter = r.old.alter
                /\ r.new.octave = r.old.octave

\* C2 amended: a call whose semitone shift is 0 leaves the octave and the
\* chromatic pitch class of every pitch as they were; it leaves letter and
\* alteration as they were exactly for naturals, for C#, D#, F#, G#, A# when the
\* target key is >= 0 and for Db, Eb, Gb, Ab, Bb when the target key is < 0.
C2_ZeroShiftKeepsPitch ==
    \A i \in Made :
        (Ok(calls[i]) /\ ShiftOf(calls[i]) = 0) =>
            \A r \in Rewritten(calls[i], calls[i]) :
                /\ r.new.octave = r.old.octave
                /\ r.new.class = r.old.class
                /\ (r.new.step = r.old.step /\ r.new.alter = r.old.alter)
                      <=> PolicySpelling(r.old.step, r.old.alter, calls[i].target_key >= 0)

\* a zero-shift call between two different keys has kept a flat as it was
C2_Witness ==
    \E i \in DOMAIN calls :
        /\ Ok(calls[i])
        /\ ShiftOf(calls[i]) = 0
        /\ Some(calls[i].target_key) # calls[i].music_file.key_signature
        /\ \E r \in Rewritten(calls[i], calls[i]) :
              r.old.alter = -1 /\ r.new.elem = r.old.elem

-----------------------------------------------------------------------------
(* The semitone shift between two keys *)

\* C3: the shifts of two calls between the same two different keys in opposite
\* directions are complements on the chromatic circle: s12 = (12 - s21) mod 12.
C3_ShiftComplement ==
    \A i \in DOMAIN calls, j \in Made :
        (/\ Ok(calls[i])
         /\ Ok(calls[j])
         /\ calls[j].music_file.key_signature = Some(calls[i].target_key)
         /\ Some(calls[j].target_key) = calls[i].music_file.key_signature
         /\ Some(calls[i].target_key) # calls[i].music_file.key_signature)
        => /\ ShiftOf(calls[i]) = (12 - ShiftOf(calls[j])) % 12
           /\ ShiftOf(calls[j]) = (12 - ShiftOf(calls[i])) % 12
           /\ ShiftOf(calls[i]) \in 0..11
           /\ ShiftOf(calls[j]) \in 0..11

\* the shifts between the enharmonic keys -7 (C flat) and 5 (B) were both computed
C3_Witness ==
    \E i, j \in DOMAIN calls :
        /\ Ok(calls[i])
        /\ Ok(calls[j])
        /\ calls[i].music_file.key_signature = Some(-7)
        /\ calls[i].target_key = 5
        /\ calls[j].music_file.key_signature = Some(5)
        /\ calls[j].target_key = -7

\* C4: the shift from a key to itself is 0.
C4_ShiftToSameKeyIsZero ==
    \A i \in Made :
        (Ok(calls[i]) /\ calls[i].music_file.key_signature = Some(calls[i].target_key))
        => ShiftOf(calls[i]) = 0

\* a score in C flat major (-7) was transposed to C flat major
C4_Witness ==
    \E i \in DOMAIN calls :
        /\ Ok(calls[i])
        /\ calls[i].music_file.key_signature = Some(-7)
        /\ calls[i].target_key = -7

-----------------------------------------------------------------------------
(* Invalid keys *)

\* C5: a call without a source key raises the invalid-key error whatever the
\* target key is; a call with a valid source key and a target key outside the
\* table raises the invalid-key error naming the target key; the two errors
\* differ in their message.
C5_InvalidKeyErrors ==
    \A i \in Made :
        LET c == calls[i] IN
        /\ c.music_file.key_signature = None =>
              /\ c.result.status = "raised"
              /\ c.result.exc = "ValueError"
              /\ c.result.msg = "Source file must have a key signature to transpose"
        /\ (c.music_file.key_signature # None
              /\ c.music_file.key_signature[1] \in Keys
              /\ c.target_key \notin Keys) =>
              /\ c.result.status = "raised"
              /\ c.result.exc = "ValueError"
              /\ c.result.msg = "Target key must be between -7 and +7, got"
              /\ c.result.val = Some(c.target_key)
              /\ c.result.msg # "Source file must have a key signature to transpose"

\* a call without a source key and with a target key outside the table was made
C5_Witness ==
    \E i \in DOMAIN calls :
        /\ calls[i].music_file.key_signature = None
        /\ calls[i].target_key \notin Keys
        /\ calls[i].result.status = "raised"

\* C6: a call with a source key outside the table and a valid target key raises
\* the error kind of an out-of-range target key, naming the source key.
C6_SourceOutOfRangeIsInvalidKey ==
    \A i \in Made :
        LET c == calls[i] IN
        (c.music_file.key_signature # None
            /\ c.music_file.key_signature[1] \notin Keys
            /\ c.target_key \in Keys) =>
            /\ c.result.status = "raised"
            /\ c.result.exc = "ValueError"
            /\ c.result.val = c.music_file.key_signature

-----------------------------------------------------------------------------
(* Key markers *)

\* C7: after a successful call every key marker of the written document that
\* held a fifths value holds the target key, whatever it held before and
\* however many there are; the markers are as many as before.
C7_EveryKeyMarkerIsTarget ==
    \A i \in Made :
        Ok(calls[i]) =>
            LET kin == InDoc(calls[i]).keys
                kout == OutDoc(calls[i]).keys
            IN  /\ Len(kout) = Len(kin)
                /\ \A k \in DOMAIN kin :
                      kin[k].fifths # None =>
                          /\ kout[k].fifths # None
                          /\ StrInt(kout[k].fifths[1]) = calls[i].target_key

\* a score with two key markers holding different fifths values was transposed
\* to a third key
C7_Witness ==
    \E i \in DOMAIN calls :
        /\ Ok(calls[i])
        /\ Len(InDoc(calls[i]).keys) = 2
        /\ InDoc(calls[i]).keys[1].fifths = Some(IntStr(0))
        /\ InDoc(calls[i]).keys[2].fifths = Some(IntStr(-4))
        /\ calls[i].target_key = 3

-----------------------------------------------------------------------------
(* Pitch rewriting *)

\* C8: every rewritten pitch has class (pc + shift) mod 12 and the input octave
\* plus floor((pc + shift) / 12), a carry of 0 or 1, for pc and shift in 0..11;
\* B4 with shift 2 and sharps preferred becomes C#5.
C8_OctaveCarry ==
    \A i \in Made :
        Ok(calls[i]) =>
            \A r \in Rewritten(calls[i], calls[i]) :
                LET sum == r.old.class + ShiftOf(calls[i]) IN
                /\ ShiftOf(calls[i]) \in 0..11
                /\ r.new.class = sum % 12
                /\ r.new.octave = r.old.octave + (sum \div 12)
                /\ (sum \div 12) \in {0, 1}
                /\ (r.old.elem = B4 /\ ShiftOf(calls[i]) = 2 /\ PreferSharpsOf(calls[i]))
                    => r.new.elem = <<StepElem("C"), AlterElem(IntStr(1)), OctaveElem(5)>>

\* B4 was transposed by 2 semitones with sharps preferred
C8_Witness ==
    \E i \in DOMAIN calls :
        /\ Ok(calls[i])
        /\ ShiftOf(calls[i]) = 2
        /\ PreferSharpsOf(calls[i])
        /\ \E r \in Rewritten(calls[i], calls[i]) : r.old.elem = B4

\* the alteration of the policy's spelling of a class
PolicyAlter(class, sharps) ==
    IF class \in {0, 2, 4, 5, 7, 9, 11} THEN 0 ELSE IF sharps THEN 1 ELSE -1

\* C9: a rewritten pitch carries an alteration marker exactly when its new
\* alteration is not 0, and the marker then holds the new alteration; B flat 4
\* landing on class 0 is written as C with no alteration marker.
C9_AlterMarkerPresence ==
    \A i \in Made :
        Ok(calls[i]) =>
            \A r \in Rewritten(calls[i], calls[i]) :
                LET new_class == (r.old.class + ShiftOf(calls[i])) % 12
                    new_alter == PolicyAlter(new_class, PreferSharpsOf(calls[i]))
                IN  /\ Cardinality(AlterMarkers(r.new.elem)) = IF new_alter = 0 THEN 0 ELSE 1
                    /\ new_alter # 0 =>
                          r.new.elem[Find(r.new.elem, "alter")].text = IntStr(new_alter)
                    /\ r.new.alter = new_alter
                    /\ (r.old.elem = BFlat4 /\ new_class = 0)
                        => r.new.elem = <<StepElem("C"), OctaveElem(5)>>

\* B flat 4 was transposed onto class 0
C9_Witness ==
    \E i \in DOMAIN calls :
        /\ Ok(calls[i])
        /\ ShiftOf(calls[i]) = 2
        /\ \E r \in Rewritten(calls[i], calls[i]) :
              r.old.elem = BFlat4 /\ ~HasAlter(r.new.elem)

\* C10: a pitch marker without letter or without octave is left exactly as it
\* was and does not make the call fail: a call with valid keys returns, every
\* well-formed pitch and every key marker with a fifths value of the same
\* document is rewritten, and the output file is written beside the input.
C10_MalformedPitchPassesThrough ==
    \A i \in Made :
        LET c == calls[i] IN
        (c.music_file.key_signature # None
            /\ c.music_file.key_signature[1] \in Keys
            /\ c.target_key \in Keys) =>
            /\ Ok(c)
            /\ c.result.path[1] \in DOMAIN fs
            /\ c.result.path[1] # c.music_file.file_path
            /\ Len(OutDoc(c).pitches) = Len(InDoc(c).pitches)
            /\ \A j \in DOMAIN InDoc(c).pitches :
                  ~WellFormed(InDoc(c).pitches[j]) =>
                      OutDoc(c).pitches[j] = InDoc(c).pitches[j]
            /\ \A r \in Rewritten(c, c) :
                  /\ r.new.class = (r.old.class + ShiftOf(c)) % 12
                  /\ r.new.octave = r.old.octave + ((r.old.class + ShiftOf(c)) \div 12)
            /\ Len(OutDoc(c).keys) = Len(InDoc(c).keys)
            /\ \A k \in DOMAIN InDoc(c).keys :
                  InDoc(c).keys[k].fifths # None =>
                      OutDoc(c).keys[k].fifths = Some(IntStr(c.target_key))

\* a score with a key marker, a pitch without <step> followed by a well-formed
\* pitch was transposed by a non-zero shift
C10_Witness ==
    \E i \in DOMAIN calls :
        /\ Ok(calls[i])
        /\ ShiftOf(calls[i]) # 0
        /\ InDoc(calls[i]).keys # <<>>
        /\ Len(InDoc(calls[i]).pitches) = 2
        /\ Find(InDoc(calls[i]).pitches[1], "step") = 0
        /\ WellFormed(InDoc(calls[i]).pitches[2])
        /\ OutDoc(calls[i]).pitches[1] = InDoc(calls[i]).pitches[1]
        /\ OutDoc(calls[i]).pitches[2] # InDoc(calls[i]).pitches[2]

-----------------------------------------------------------------------------
(* Spelling *)

NaturalClasses == {0, 2, 4, 5, 7, 9, 11}

\* the class a rewritten pitch was sent to: (pc + shift) mod 12
TargetClass(r, c) == (r.old.class + ShiftOf(c)) % 12

\* C13: chromatic_to_note gives for a natural class the natural letter with
\* alteration 0 whatever the flag; for a black-key class the letter below with
\* alteration +1 when sharps are preferred and the letter above with
\* alteration -1 otherwise; note_to_chromatic of what it gives is the class.
C13_SpellingPolicy ==
    \A i \in Made :
        Ok(calls[i]) =>
            \A r \in Rewritten(calls[i], calls[i]) :
                LET class == TargetClass(r, calls[i]) IN
                /\ class \in 0..11
                /\ IF class \in NaturalClasses
                   THEN base_notes[r.new.step] = class /\ r.new.alter = 0
                   ELSE IF PreferSharpsOf(calls[i])
                        THEN base_notes[r.new.step] = class - 1 /\ r.new.alter = 1
                        ELSE base_notes[r.new.step] = class + 1 /\ r.new.alter = -1
                /\ note_to_chromatic(r.new.step, r.new.alter) = class

\* class 10 was spelled with flats preferred
C13_Witness ==
    \E i \in DOMAIN calls :
        /\ Ok(calls[i])
        /\ ~PreferSharpsOf(calls[i])
        /\ \E r \in Rewritten(calls[i], calls[i]) :
              TargetClass(r, calls[i]) = 10 /\ r.new.step = "B"

\* C14: after a call with target key >= 0 (0 included) every rewritten pitch
\* has alteration 0 or +1, after a call with target key < 0 alteration 0 or -1,
\* whatever the source key and the spelling in the input were.
C14_AccidentalsFollowTarget ==
    \A i \in Made :
        Ok(calls[i]) =>
            \A r \in Rewritten(calls[i], calls[i]) :
                LET allowed == IF calls[i].target_key >= 0 THEN {0, 1} ELSE {0, -1} IN
                /\ r.new.alter \in allowed
                /\ \A k \in AlterMarkers(r.new.elem) :
                      r.new.elem[k].text # <<>> /\ StrInt(r.new.elem[k].text) \in allowed \ {0}

\* a flat of a score in a flat key came out as a sharp in C major
C14_Witness ==
    \E i \in DOMAIN calls :
        /\ Ok(calls[i])
        /\ calls[i].music_file.key_signature[1] < 0
        /\ calls[i].target_key = 0
        /\ \E r \in Rewritten(calls[i], calls[i]) : r.old.alter = -1 /\ r.new.alter = 1

\* the tags of the children of a pitch, in order
Tags(p) == [k \in DOMAIN p |-> p[k].tag]

Height(n) == 12 * n.octave + base_notes[n.step] + n.alter

\* C16: the absolute semitone height 12*octave + baseOffset[letter] + alteration
\* of every rewritten pitch is that of the input pitch plus the semitone shift
\* of the call, C flat and B sharp included.
C16_HeightShiftedByInterval ==
    \A i \in Made :
        Ok(calls[i]) =>
            \A r \in Rewritten(calls[i], calls[i]) :
                Height(r.new) = Height(r.old) + ShiftOf(calls[i])

-----------------------------------------------------------------------------
(* Output files *)

\* C11: no call changes the content of the input file: a call that returns
\* has written a file other than its input file, the file
\* <stem>_transposed_to_<tonic letter>.xml when no output path was passed and
\* the file of the passed path otherwise.
C11_InputFileNeverWritten ==
    [][/\ fs'[InputPath] = fs[InputPath]
       /\ \A i \in DOMAIN calls' \ DOMAIN calls :
             Ok(calls'[i]) =>
                 /\ calls'[i].result.path[1] # calls'[i].music_file.file_path
                 /\ calls'[i].result.path[1] =
                        IF calls'[i].output_path = None
                        THEN Append(calls'[i].music_file.file_path,
                                    KEY_SIGNATURES[calls'[i].target_key][1])
                        ELSE calls'[i].output_path[1]
                 /\ DOMAIN fs' = DOMAIN fs \cup {calls'[i].result.path[1]}
                 /\ \A f \in DOMAIN fs \ {calls'[i].result.path[1]} : fs'[f] = fs[f]]_vars

-----------------------------------------------------------------------------
(* Parallel calls *)

\* what the call of thread t gives when it runs alone on its score
Alone(t) ==
    transpose_musicxml((threads[t].music_file.file_path :> threads[t].doc),
                       threads[t].music_file, threads[t].target_key, None)

\* C12: when calls run in parallel, each on a score file of its own and
\* writing an output path of its own, under every interleaving of their steps
\* a call that has ended has raised or returned what it does when run alone,
\* its output file holds the tree it writes when run alone, and the score
\* files are as they were.
C12_ParallelCallsAreIndependent ==
    \A t \in DOMAIN threads :
        /\ fs[threads[t].music_file.file_path] = threads[t].doc
        /\ threads[t].pc \in {"raised", "done"} =>
              /\ threads[t].result = Some(Alone(t))
              /\ threads[t].pc = "done" <=> Alone(t).status = "returned"
        /\ threads[t].pc = "done" =>
              fs[threads[t].result[1].path[1]] = Alone(t).tree[1]
        /\ \A u \in DOMAIN threads \ {t} :
              (threads[t].pc = "done" /\ threads[u].pc = "done") =>
                  threads[t].result[1].path # threads[u].result[1].path

\* of two calls on like two-part scores, to different keys, one has ended
\* while the other is in the middle of its pitch loop
C12_Witness ==
    \E t, u \in DOMAIN threads :
        /\ threads[t].doc = threads[u].doc
        /\ Len(threads[t].doc.pitches) = 2
        /\ threads[t].target_key # threads[u].target_key
        /\ threads[t].pc = "done"
        /\ threads[u].pc = "pitches"
        /\ threads[u].pitch_index = 2

-----------------------------------------------------------------------------
(* Sessions of the service *)

\* the last response, when it answers the given endpoint
Answered(endpoint) == response # None /\ response[1].endpoint = endpoint

\* what a transposition of the score uploaded to a session gives, to target key k
FromUpload(session_id, k) ==
    transpose_musicxml((history[session_id].xml_path :> history[session_id].uploaded),
                       [file_path |-> history[session_id].xml_path,
                        key_signature |-> history[session_id].original_key],
                       k, None)

\* C18: whatever requests were served, every session has the xml_path and the
\* original_key its upload gave it and its score file is as uploaded; the
\* file a successful /api/transpose to key k has written is the transposition
\* to k of the uploaded score from its original key.
C18_TransposeDoesNotCompound ==
    /\ DOMAIN sessions = DOMAIN history
    /\ \A id \in DOMAIN sessions :
          /\ sessions[id].xml_path = history[id].xml_path
          /\ sessions[id].original_key = history[id].original_key
          /\ fs[sessions[id].xml_path] = history[id].uploaded
          /\ sessions[id].original_key = parse_musicxml(fs, sessions[id].xml_path).key_signature
    /\ (Answered("transpose") /\ response[1].status = 200) =>
          LET id == response[1].session_id[1]
              alone == FromUpload(id, response[1].target_key[1])
          IN  /\ alone.status = "returned"
              /\ sessions[id].transposed_path = alone.path
              /\ fs[alone.path[1]] = alone.tree[1]

\* a session was transposed to D major (2) and is now transposed to C sharp
\* major (7): the file written holds the uploaded B4 moved by one semitone
C18_Witness ==
    /\ Answered("transpose")
    /\ response[1].status = 200
    /\ response[1].target_key = Some(7)
    /\ LET id == response[1].session_id[1] IN
       /\ Append(sessions[id].xml_path, "D") \in DOMAIN fs
       /\ fs[sessions[id].transposed_path[1]].pitches[1] = <<StepElem("C"), OctaveElem(5)>>

\* C19: /api/convert-to-pdf renders a file only on a session that a
\* successful /api/transpose was served on before, and then the file the most
\* recent of them wrote; on a session never transposed it answers 400; on a
\* session id that no successful upload gave out it and /api/transpose answer 404.
C19_ConvertAfterTranspose ==
    /\ Answered("convert-to-pdf") =>
          LET id == response[1].session_id[1] IN
          IF id \notin DOMAIN history THEN response[1].status = 404 /\ response[1].converted = None
          ELSE IF history[id].transposed = None
               THEN response[1].status = 400 /\ response[1].converted = None
               ELSE /\ response[1].status \in {200, 500}
                    /\ response[1].status = 200 <=> response[1].converted # None
                    /\ response[1].converted # None =>
                          /\ response[1].converted[1].path = history[id].transposed[1].path
                          /\ response[1].converted[1].document = history[id].transposed[1].tree
    /\ Answered("transpose") =>
          (response[1].session_id[1] \notin DOMAIN history => response[1].status = 404)

\* a session was transposed to D major and then to C sharp major, and the
\* file rendered is the score in C sharp major
C19_Witness ==
    /\ Answered("convert-to-pdf")
    /\ response[1].status = 200
    /\ response[1].converted[1].document.keys[1].fifths = Some(IntStr(7))
    /\ Append(sessions[response[1].session_id[1]].xml_path, "D") \in DOMAIN fs

\* C20: an /api/transpose request answered with another status than 200
\* leaves the session store as it was: 404 on an unknown session, 400 on a
\* target key the table lacks, 500 when the engine raises.
C20_FailedTransposeKeepsStore ==
    [][(/\ response' # response
        /\ response'[1].endpoint = "transpose")
       => LET id == response'[1].session_id[1]
              k == response'[1].target_key[1]
          IN  /\ response'[1].status =
                    IF id \notin DOMAIN sessions THEN 404
                    ELSE IF k \notin Keys THEN 400
                    ELSE IF sessions[id].original_key = None THEN 500
                    ELSE 200
              /\ response'[1].status # 200 => sessions' = sessions /\ fs' = fs]_vars

\* a request to a key outside the table was refused on a session that keeps
\* the path of its last successful transpose
C20_Witness ==
    /\ Answered("transpose")
    /\ response[1].status = 400
    /\ sessions[response[1].session_id[1]].transposed_path # None

-----------------------------------------------------------------------------
(* The window application *)

\* the stored transposed file is a transposition of the score now loaded
TransposedIsOfLoadedScore ==
    /\ app.music_data # None
    /\ app.transposed_xml_path # None
    /\ \E k \in Keys :
          /\ app.transposed_xml_path[1] = DefaultOutputPath(app.music_data[1].file_path, k)
          /\ app.transposed_xml_path[1] \in DOMAIN fs
          /\ transpose_musicxml(fs, app.music_data[1], k, None).status = "returned"
          /\ fs[app.transposed_xml_path[1]]
                = transpose_musicxml(fs, app.music_data[1], k, None).tree[1]

\* C21: whenever the Convert-to-PDF button is enabled, the stored
\* transposed_xml_path is a transposition of the score that music_data holds.
C21_PdfButtonOnLoadedScore ==
    (app # <<>> /\ app.pdf_btn = "normal") => TransposedIsOfLoadedScore

====
